---- MODULE Spec2Model ----
(***************************************************************************)
(* Model of the symbolic geometric-algebra engine (src/concept/cga.py) and *)
(* of the blade-multiplication generator (src/gen_dodeca.py).              *)
(*                                                                         *)
(* Strings of axis symbols are sequences of one-character strings.         *)
(* A Python dict is an insertion-ordered sequence of <<key, value>> pairs  *)
(* with distinct keys, so that iteration order and "first key" are those   *)
(* of the program.                                                         *)
(***************************************************************************)
EXTENDS Integers, Sequences, FiniteSets, TLC

VARIABLES
    pc,        \* position of the client: "call" before, "done" after a pure call
    axes_in,   \* argument of canonicalize, or the pair given to multiply_axes
    canon_out, \* value returned by canonicalize or by multiply_axes
    gen_args,  \* arguments of gen_mul_func
    gen_out,   \* kernel emitted by gen_mul_func
    sreg,      \* polynomial values (ScalarExpr.terms) held by the client
    sops,      \* number of polynomial operations performed
    text,      \* what the last observer (str, bool, ==) returned
    creg,      \* multivector values (CgaExpr.terms) held by the client
    cops,      \* number of multivector operations performed
    raised     \* exception raised by the last multivector operation, or "none"

vars == <<pc, axes_in, canon_out, gen_args, gen_out, sreg, sops, text, creg, cops, raised>>

----------------------------------------------------------------------------
(* Bounds of the model *)

MaxLen == 5

MaxPolyOps == 3

MaxLit == 1

MaxDictLen == 2

MaxCgaOps == 2

MaxLabelLen == 2

\* Largest magnitude of an int coordinate given to point_at
MaxCoord == 6

----------------------------------------------------------------------------
(* Generic helpers *)

Range(s) == {s[i] : i \in DOMAIN s}

\* True of every sequence.  A loop tests it on its accumulator so that TLC
\* evaluates the accumulator at each iteration and not as one nested
\* expression when the loop ends.
Evaluated(s) == Len(s) >= 0

RECURSIVE SeqsUpTo(_, _)
SeqsUpTo(S, n) ==
    IF n = 0 THEN {<<>>}
    ELSE LET shorter == SeqsUpTo(S, n - 1)
         IN shorter \cup {Append(s, c) : s \in {t \in shorter : Len(t) = n - 1}, c \in S}

----------------------------------------------------------------------------
(* src/concept/cga.py: the blade canonicalizer *)

AXES == <<"-", "+", "x", "y", "z">>

\* Position of an axis symbol in the fixed order
Rank(c) == CHOOSE i \in 1..Len(AXES) : AXES[i] = c

\* c in s
Contains(s, c) == \E i \in 1..Len(s) : s[i] = c

\* s.index(c): offset (from 0) of the first occurrence of c
Index(s, c) ==
    (CHOOSE i \in 1..Len(s) : s[i] = c /\ \A j \in 1..(i - 1) : s[j] # c) - 1

\* s.replace(c, '', 1)
RemoveFirst(s, c) ==
    LET i == Index(s, c) + 1
    IN SubSeq(s, 1, i - 1) \o SubSeq(s, i + 1, Len(s))

\* (mutant of count: overlapping occurrences are counted)
RECURSIVE CountOverlapping(_, _)
CountOverlapping(s, sub) ==
    IF Len(s) < Len(sub) THEN 0
    ELSE (IF SubSeq(s, 1, Len(sub)) = sub THEN 1 ELSE 0)
         + CountOverlapping(Tail(s), sub)

\* (mutant of count: the metric flip is left out)
CountNothing(s, sub) == 0

\* s.count(sub): non-overlapping occurrences, scanning from the left
RECURSIVE Count(_, _)
Count(s, sub) ==
    IF Len(s) < Len(sub) THEN 0
    ELSE IF SubSeq(s, 1, Len(sub)) = sub
         THEN 1 + Count(SubSeq(s, Len(sub) + 1, Len(s)), sub)
         ELSE Count(Tail(s), sub)

\* s.replace(sub, ''): every non-overlapping occurrence, scanning from the left
RECURSIVE Remove(_, _)
Remove(s, sub) ==
    IF Len(s) < Len(sub) THEN s
    ELSE IF SubSeq(s, 1, Len(sub)) = sub
         THEN Remove(SubSeq(s, Len(sub) + 1, Len(s)), sub)
         ELSE <<Head(s)>> \o Remove(Tail(s), sub)

\* lines 35-39: for c in AXES: while c in axes: swaps += index; remove; ret += c
RECURSIVE PlaceAxes(_, _, _, _)
PlaceAxes(ci, axes, ret, swaps) ==
    IF ci > Len(AXES) THEN [ret |-> ret, swaps |-> swaps]
    ELSE IF Contains(axes, AXES[ci])
         THEN PlaceAxes(ci, RemoveFirst(axes, AXES[ci]),
                        Append(ret, AXES[ci]), swaps + Index(axes, AXES[ci]))
         ELSE PlaceAxes(ci + 1, axes, ret, swaps)

\* lines 41-42: for c in AXES: ret = ret.replace(c+c, '')
RECURSIVE RemovePairs(_, _)
RemovePairs(ci, ret) ==
    IF ci > Len(AXES) THEN ret
    ELSE RemovePairs(ci + 1, Remove(ret, <<AXES[ci], AXES[ci]>>))

\* (mutant of line 43: the sign is taken from swaps modulo three)
canonicalize_mod3(axes) ==
    LET placed == PlaceAxes(1, axes, <<>>, 0)
        swaps  == placed.swaps + Count(placed.ret, <<"-", "-">>)
    IN [ret  |-> RemovePairs(1, placed.ret),
        sign |-> IF swaps % 3 # 0 THEN -1 ELSE 1]

canonicalize(axes) ==
    LET placed == PlaceAxes(1, axes, <<>>, 0)
        swaps  == placed.swaps + Count(placed.ret, <<"-", "-">>)
    IN [ret  |-> RemovePairs(1, placed.ret),
        sign |-> IF swaps % 2 # 0 THEN -1 ELSE 1]

----------------------------------------------------------------------------
(* Client of canonicalize: one call on an arbitrary axis string *)

\* Idle values of the variables a client does not use
NoCanon == [ret |-> <<>>, sign |-> 0]

NoGenArgs == [funcname |-> "", r |-> 0, s |-> 0, result_grade |-> 0]

CanonInputs == SeqsUpTo(Range(AXES), MaxLen)

InitCanon ==
    /\ pc = "call"
    /\ axes_in \in CanonInputs
    /\ canon_out = NoCanon
    /\ gen_args = NoGenArgs
    /\ gen_out = <<>>
    /\ sreg = <<>>
    /\ sops = 0
    /\ text = <<>>
    /\ creg = <<>>
    /\ cops = 0
    /\ raised = "none"

CallCanonicalize ==
    /\ pc = "call"
    /\ canon_out' = canonicalize(axes_in)
    /\ pc' = "done"
    /\ UNCHANGED <<axes_in, gen_args, gen_out, sreg, sops, text, creg, cops, raised>>

NextCanon == CallCanonicalize

SpecCanon == InitCanon /\ [][NextCanon]_vars

----------------------------------------------------------------------------
(* Python dict / defaultdict as an insertion-ordered list of <<key, value>> *)

HasKey(d, k) == \E i \in 1..Len(d) : d[i][1] = k

KeyPos(d, k) == CHOOSE i \in 1..Len(d) : d[i][1] = k

Get(d, k) == d[KeyPos(d, k)][2]

Keys(d) == [i \in 1..Len(d) |-> d[i][1]]

Values(d) == [i \in 1..Len(d) |-> d[i][2]]

\* d[k] = v
SetItem(d, k, v) ==
    IF HasKey(d, k) THEN [d EXCEPT ![KeyPos(d, k)] = <<k, v>>]
    ELSE Append(d, <<k, v>>)

\* defaultdict.__getitem__: a missing key is inserted with the default value
DefaultGet(d, k, dflt) ==
    IF HasKey(d, k) THEN [value |-> Get(d, k), dict |-> d]
    ELSE [value |-> dflt, dict |-> Append(d, <<k, dflt>>)]

\* The mapping a dict denotes (dict equality ignores insertion order)
Mapping(d) == Range(d)

----------------------------------------------------------------------------
(* src/concept/cga.py: ScalarExpr, a polynomial, represented by its terms *)

\* Variable names used by the client, in Python's string order
VARS == <<"a", "b">>

VarRank(v) == CHOOSE i \in 1..Len(VARS) : VARS[i] = v

\* sorted(k) for a tuple of variable names
RECURSIVE Insert(_, _)
Insert(s, v) ==
    IF s = <<>> THEN <<v>>
    ELSE IF VarRank(v) < VarRank(Head(s)) THEN <<v>> \o s
         ELSE <<Head(s)>> \o Insert(Tail(s), v)

RECURSIVE sorted(_)
sorted(k) == IF k = <<>> THEN <<>> ELSE Insert(sorted(SubSeq(k, 1, Len(k) - 1)), k[Len(k)])

\* defaultdict(lambda: 0): terms[k] += v
AddCoef(terms, k, v) == SetItem(terms, k, DefaultGet(terms, k, 0).value + v)

\* lines 55-59: for k, v in terms: if v != 0: self.terms[tuple(sorted(k))] += v
RECURSIVE ScalarExpr_init(_, _)
ScalarExpr_init(items, terms) ==
    IF items = <<>> \/ ~Evaluated(terms) THEN terms
    ELSE LET k == Head(items)[1]
             v == Head(items)[2]
         IN ScalarExpr_init(Tail(items),
                IF v # 0 THEN AddCoef(terms, sorted(k), v) ELSE terms)

\* ScalarExpr(): terms is None
ScalarExpr_none == <<>>

\* ScalarExpr(number): terms = [((), terms)]
ScalarExpr_number(n) == ScalarExpr_init(<< <<<<>>, n>> >>, <<>>)

\* ScalarExpr(str): terms = [((terms,), 1)]
ScalarExpr_str_name(name) == ScalarExpr_init(<< <<<<name>>, 1>> >>, <<>>)

\* ScalarExpr(dict): terms = terms.items(); also ScalarExpr(list of pairs)
ScalarExpr_items(items) == ScalarExpr_init(items, <<>>)

\* lines 64-68: the double loop of __mul__ over both operands' items
RECURSIVE ScalarExpr_mul_inner(_, _, _, _)
ScalarExpr_mul_inner(vars1, coef1, items2, new_terms) ==
    IF items2 = <<>> \/ ~Evaluated(new_terms) THEN new_terms
    ELSE ScalarExpr_mul_inner(vars1, coef1, Tail(items2),
             AddCoef(new_terms, vars1 \o Head(items2)[1], coef1 * Head(items2)[2]))

RECURSIVE ScalarExpr_mul_outer(_, _, _)
ScalarExpr_mul_outer(items1, items2, new_terms) ==
    IF items1 = <<>> \/ ~Evaluated(new_terms) THEN new_terms
    ELSE ScalarExpr_mul_outer(Tail(items1), items2,
             ScalarExpr_mul_inner(Head(items1)[1], Head(items1)[2], items2, new_terms))

\* __mul__ with a ScalarExpr right operand
ScalarExpr_mul(self, rhs) == ScalarExpr_items(ScalarExpr_mul_outer(self, rhs, <<>>))

\* __mul__ with a number: ScalarExpr({k: v * rhs for k, v in self.terms.items()})
ScalarExpr_mul_number(self, rhs) ==
    ScalarExpr_items([i \in 1..Len(self) |-> <<self[i][1], self[i][2] * rhs>>])

\* lines 82-84: new_terms = self.terms.copy(); new_terms[vars] += coef
RECURSIVE ScalarExpr_add_loop(_, _)
ScalarExpr_add_loop(items, new_terms) ==
    IF items = <<>> \/ ~Evaluated(new_terms) THEN new_terms
    ELSE ScalarExpr_add_loop(Tail(items),
             AddCoef(new_terms, Head(items)[1], Head(items)[2]))

\* __add__ with a ScalarExpr right operand
ScalarExpr_add(self, rhs) ==
    ScalarExpr_items(SelectSeq(ScalarExpr_add_loop(rhs, self), LAMBDA kv : kv[2] # 0))

\* __add__ with a number: self + ScalarExpr([('', rhs)])
ScalarExpr_add_number(self, rhs) ==
    ScalarExpr_add(self, ScalarExpr_items(<< <<<<>>, rhs>> >>))

\* (mutant of __neg__: the factor is 1)
ScalarExpr_neg_positive(self) == ScalarExpr_mul_number(self, 1)

\* __neg__: self * -1
ScalarExpr_neg(self) == ScalarExpr_mul_number(self, -1)

\* __sub__: self + -rhs
ScalarExpr_sub(self, rhs) == ScalarExpr_add(self, ScalarExpr_neg(rhs))

\* __bool__: any(self.terms.values())
ScalarExpr_bool(self) == \E i \in 1..Len(self) : self[i][2] # 0

\* __eq__(scalar)
ScalarExpr_eq(self, scalar) ==
    Len(self) = 1 /\ HasKey(self, <<>>) /\ Get(self, <<>>) = scalar

\* Python's order on tuples of variable names (lexicographic, prefix first)
RECURSIVE TupleLess(_, _)
TupleLess(k1, k2) ==
    IF k1 = <<>> THEN k2 # <<>>
    ELSE IF k2 = <<>> THEN FALSE
    ELSE IF Head(k1) = Head(k2) THEN TupleLess(Tail(k1), Tail(k2))
    ELSE VarRank(Head(k1)) < VarRank(Head(k2))

\* sorted(self.terms.keys())
RECURSIVE SortedKeys(_)
SortedKeys(keyset) ==
    IF keyset = {} THEN <<>>
    ELSE LET least == CHOOSE k \in keyset : \A j \in keyset \ {k} : TupleLess(k, j)
         IN <<least>> \o SortedKeys(keyset \ {least})

\* __str__, lines 123-126: the terms read, self.terms[var], in sorted key
\* order.  The result is the rendered terms (coefficient and variables) and
\* the terms dict after the reads through the defaultdict.
RECURSIVE ScalarExpr_str_loop(_, _, _)
ScalarExpr_str_loop(keys, terms, out) ==
    IF keys = <<>> \/ ~Evaluated(terms) THEN [text |-> out, terms |-> terms]
    ELSE LET read == DefaultGet(terms, Head(keys), 0)
         IN ScalarExpr_str_loop(Tail(keys), read.dict,
                                Append(out, <<read.value, Head(keys)>>))

ScalarExpr_str(self) == ScalarExpr_str_loop(SortedKeys(Range(Keys(self))), self, <<>>)

----------------------------------------------------------------------------
(* Client of ScalarExpr: three polynomial values p, q, r, built and combined *)
(* by at most MaxPolyOps constructor calls and operations.                   *)

SREGS == {"p", "q", "r"}

\* Numbers the client passes as literals and scalar factors
Literals == (-1)..MaxLit

\* Keys of explicit term mappings: tuples of variable names, sorted or not
DictKeys == <<  <<"a">>, <<"b">>, <<"a", "b">>, <<"b", "a">>  >>

\* Explicit term mappings ScalarExpr is constructed from: up to MaxDictLen
\* distinct keys (listed in the order of DictKeys), nonzero or zero values
RECURSIVE DictsFrom(_, _)
DictsFrom(ki, n) ==
    IF n = 0 \/ ki > Len(DictKeys) THEN {<<>>}
    ELSE DictsFrom(ki + 1, n)
         \cup {<< <<DictKeys[ki], v>> >> \o d : v \in {-1, 1}, d \in DictsFrom(ki + 1, n - 1)}

DictInputs == DictsFrom(1, MaxDictLen)

InitPoly ==
    /\ pc = "call"
    /\ axes_in = <<>>
    /\ canon_out = NoCanon
    /\ gen_args = NoGenArgs
    /\ gen_out = <<>>
    /\ sreg = [i \in SREGS |-> ScalarExpr_none]
    /\ sops = 0
    /\ text = <<>>
    /\ creg = <<>>
    /\ cops = 0
    /\ raised = "none"

PolyFrame == UNCHANGED <<pc, axes_in, canon_out, gen_args, gen_out, creg, cops, raised>>

PolyDone ==
    /\ sops' = sops + 1
    /\ UNCHANGED text
    /\ PolyFrame

\* i = ScalarExpr(n)
SNumber(i) ==
    /\ sops < MaxPolyOps
    /\ \E n \in Literals : sreg' = [sreg EXCEPT ![i] = ScalarExpr_number(n)]
    /\ PolyDone

\* i = ScalarExpr('a')
SName(i) ==
    /\ sops < MaxPolyOps
    /\ \E v \in Range(VARS) : sreg' = [sreg EXCEPT ![i] = ScalarExpr_str_name(v)]
    /\ PolyDone

\* i = ScalarExpr({...})
SDict(i) ==
    /\ sops < MaxPolyOps
    /\ \E d \in DictInputs : sreg' = [sreg EXCEPT ![i] = ScalarExpr_items(d)]
    /\ PolyDone

\* i = i + j
SAdd(i, j) ==
    /\ sops < MaxPolyOps
    /\ sreg' = [sreg EXCEPT ![i] = ScalarExpr_add(sreg[i], sreg[j])]
    /\ PolyDone

\* i = i - j
SSub(i, j) ==
    /\ sops < MaxPolyOps
    /\ sreg' = [sreg EXCEPT ![i] = ScalarExpr_sub(sreg[i], sreg[j])]
    /\ PolyDone

\* i = i * j
SMul(i, j) ==
    /\ sops < MaxPolyOps
    /\ sreg' = [sreg EXCEPT ![i] = ScalarExpr_mul(sreg[i], sreg[j])]
    /\ PolyDone

\* i = -i
SNeg(i) ==
    /\ sops < MaxPolyOps
    /\ sreg' = [sreg EXCEPT ![i] = ScalarExpr_neg(sreg[i])]
    /\ PolyDone

\* i = i * n
SMulNumber(i) ==
    /\ sops < MaxPolyOps
    /\ \E n \in Literals : sreg' = [sreg EXCEPT ![i] = ScalarExpr_mul_number(sreg[i], n)]
    /\ PolyDone

\* i = i + n
SAddNumber(i) ==
    /\ sops < MaxPolyOps
    /\ \E n \in Literals : sreg' = [sreg EXCEPT ![i] = ScalarExpr_add_number(sreg[i], n)]
    /\ PolyDone

\* str(i): the text is returned, and the terms are what the reads left
SStr(i) ==
    /\ sops < MaxPolyOps
    /\ LET res == ScalarExpr_str(sreg[i])
       IN /\ text' = res.text
          /\ sreg' = [sreg EXCEPT ![i] = res.terms]
    /\ sops' = sops + 1
    /\ PolyFrame

\* bool(i)
SBool(i) ==
    /\ sops < MaxPolyOps
    /\ text' = << <<ScalarExpr_bool(sreg[i])>> >>
    /\ sops' = sops + 1
    /\ UNCHANGED sreg
    /\ PolyFrame

NextPoly ==
    \E i \in SREGS :
        \/ SNumber(i)
        \/ SName(i)
        \/ SDict(i)
        \/ SNeg(i)
        \/ SMulNumber(i)
        \/ SAddNumber(i)
        \/ SStr(i)
        \/ SBool(i)
        \/ \E j \in SREGS : SAdd(i, j)
        \/ \E j \in SREGS : SSub(i, j)
        \/ \E j \in SREGS : SMul(i, j)

SpecPoly == InitPoly /\ [][NextPoly]_vars

----------------------------------------------------------------------------
(* src/concept/cga.py: CgaExpr, a multivector, represented by its terms:    *)
(* a defaultdict(ScalarExpr) from blade labels to polynomials               *)

\* itertools.combinations(s, r), in itertools' order
RECURSIVE combinations(_, _)
combinations(s, r) ==
    IF r = 0 THEN << <<>> >>
    ELSE IF Len(s) < r THEN <<>>
    ELSE LET rest == combinations(Tail(s), r - 1)
         IN [n \in 1..Len(rest) |-> <<Head(s)>> \o rest[n]] \o combinations(Tail(s), r)

\* powerset(iterable): chain of combinations(s, r) for r in range(len(s)+1)
RECURSIVE powerset_from(_, _)
powerset_from(s, r) ==
    IF r > Len(s) THEN <<>> ELSE combinations(s, r) \o powerset_from(s, r + 1)

powerset(s) == powerset_from(s, 0)

\* defaultdict(ScalarExpr): terms[k] += coef, coef a ScalarExpr
AddPoly(terms, k, coef) ==
    SetItem(terms, k, ScalarExpr_add(DefaultGet(terms, k, ScalarExpr_none).value, coef))

\* defaultdict(ScalarExpr): terms[k] += n, n a number
AddPolyNumber(terms, k, n) ==
    SetItem(terms, k, ScalarExpr_add_number(DefaultGet(terms, k, ScalarExpr_none).value, n))

\* lines 150-155 with ScalarExpr values:
\* for k, v in terms: if v: k, sign = canonicalize(k); self.terms[k] += v * sign
RECURSIVE CgaExpr_init(_, _)
CgaExpr_init(items, terms) ==
    IF items = <<>> \/ ~Evaluated(terms) THEN terms
    ELSE LET k == Head(items)[1]
             v == Head(items)[2]
             c == canonicalize(k)
         IN CgaExpr_init(Tail(items),
                IF ScalarExpr_bool(v)
                THEN AddPoly(terms, c.ret, ScalarExpr_mul_number(v, c.sign))
                ELSE terms)

\* lines 150-155 with number values
RECURSIVE CgaExpr_init_number(_, _)
CgaExpr_init_number(items, terms) ==
    IF items = <<>> \/ ~Evaluated(terms) THEN terms
    ELSE LET k == Head(items)[1]
             v == Head(items)[2]
             c == canonicalize(k)
         IN CgaExpr_init_number(Tail(items),
                IF v # 0 THEN AddPolyNumber(terms, c.ret, v * c.sign) ELSE terms)

\* CgaExpr(): terms is None
CgaExpr_none == <<>>

\* CgaExpr(ScalarExpr): terms = [((), terms)]; ''.join(()) is ''
CgaExpr_scalar(poly) == CgaExpr_init(<< <<<<>>, poly>> >>, <<>>)

\* CgaExpr(number): terms = [((), terms)]
CgaExpr_number(n) == CgaExpr_init_number(<< <<<<>>, n>> >>, <<>>)

\* CgaExpr(str): terms = [((terms,), 1)]; ''.join((terms,)) is terms
CgaExpr_str_label(label) == CgaExpr_init_number(<< <<label, 1>> >>, <<>>)

\* CgaExpr(dict or list of pairs) with ScalarExpr values
CgaExpr_items(items) == CgaExpr_init(items, <<>>)

\* CgaExpr(dict or list of pairs) with number values
CgaExpr_items_number(items) == CgaExpr_init_number(items, <<>>)

\* lines 160-164: the double loop of __mul__
RECURSIVE CgaExpr_mul_inner(_, _, _, _)
CgaExpr_mul_inner(axes1, coef1, items2, new_terms) ==
    IF items2 = <<>> \/ ~Evaluated(new_terms) THEN new_terms
    ELSE LET c    == canonicalize(axes1 \o Head(items2)[1])
             coef == ScalarExpr_mul_number(ScalarExpr_mul(coef1, Head(items2)[2]), c.sign)
         IN CgaExpr_mul_inner(axes1, coef1, Tail(items2), AddPoly(new_terms, c.ret, coef))

RECURSIVE CgaExpr_mul_outer(_, _, _)
CgaExpr_mul_outer(items1, items2, new_terms) ==
    IF items1 = <<>> \/ ~Evaluated(new_terms) THEN new_terms
    ELSE CgaExpr_mul_outer(Tail(items1), items2,
             CgaExpr_mul_inner(Head(items1)[1], Head(items1)[2], items2, new_terms))

\* __mul__ with a CgaExpr right operand
CgaExpr_mul(self, rhs) == CgaExpr_items(CgaExpr_mul_outer(self, rhs, <<>>))

\* __mul__ with a number: CgaExpr({k: v * rhs for k, v in self.terms.items()})
CgaExpr_mul_number(self, rhs) ==
    CgaExpr_items([n \in 1..Len(self) |->
                      <<self[n][1], ScalarExpr_mul_number(self[n][2], rhs)>>])

\* __mul__ with a ScalarExpr
CgaExpr_mul_scalar(self, rhs) ==
    CgaExpr_items([n \in 1..Len(self) |->
                      <<self[n][1], ScalarExpr_mul(self[n][2], rhs)>>])

\* __neg__: self * -1
CgaExpr_neg(self) == CgaExpr_mul_number(self, -1)

\* lines 185-187: new_terms = self.terms.copy(); new_terms[vars] += coef
RECURSIVE CgaExpr_add_loop(_, _)
CgaExpr_add_loop(items, new_terms) ==
    IF items = <<>> \/ ~Evaluated(new_terms) THEN new_terms
    ELSE CgaExpr_add_loop(Tail(items), AddPoly(new_terms, Head(items)[1], Head(items)[2]))

\* __add__ with a CgaExpr right operand
CgaExpr_add(self, rhs) == CgaExpr_items(CgaExpr_add_loop(rhs, self))

\* __sub__: self + -rhs
CgaExpr_sub(self, rhs) == CgaExpr_add(self, CgaExpr_neg(rhs))

\* grade_project
CgaExpr_grade_project(self, grade) ==
    CgaExpr_items(SelectSeq(self, LAMBDA kv : Len(kv[1]) = grade))

\* grade: len(next(iter(self.terms.keys()))); next() raises on no keys
GradeRaises(self) == Len(self) = 0

CgaExpr_grade(self) == Len(self[1][1])

\* __lshift__ and __xor__ (both raise when a grade does)
CgaExpr_lshift(self, rhs) ==
    CgaExpr_grade_project(CgaExpr_mul(self, rhs), CgaExpr_grade(rhs) - CgaExpr_grade(self))

CgaExpr_xor(self, rhs) ==
    CgaExpr_grade_project(CgaExpr_mul(self, rhs), CgaExpr_grade(self) + CgaExpr_grade(rhs))

\* __bool__: any(self.terms.values())
CgaExpr_bool(self) == \E n \in 1..Len(self) : ScalarExpr_bool(self[n][2])

\* s: self.terms.get('', ScalarExpr(0))
CgaExpr_s(self) == IF HasKey(self, <<>>) THEN Get(self, <<>>) ELSE ScalarExpr_number(0)

\* k[::-1]
RECURSIVE Reversed(_)
Reversed(k) == IF k = <<>> THEN <<>> ELSE Append(Reversed(Tail(k)), Head(k))

\* rev: CgaExpr({k[::-1]: v for k, v in self.terms.items()})
CgaExpr_rev(self) ==
    CgaExpr_items([n \in 1..Len(self) |-> <<Reversed(self[n][1]), self[n][2]>>])

\* dual: self << CgaExpr([(AXES, 1)])
CgaExpr_dual(self) == CgaExpr_lshift(self, CgaExpr_items_number(<< <<AXES, 1>> >>))

\* get_human_term(axes) for axes of AXES symbols, lines 231-234:
\* coef = self.terms[axes], a read through the defaultdict.  The formatted
\* text of a term is kept as the pair <<coef, axes>>, '' as <<>>.
get_human_term(terms, axes) ==
    LET read == DefaultGet(terms, axes, ScalarExpr_none)
    IN [text  |-> IF ~ScalarExpr_bool(read.value) THEN <<>> ELSE <<read.value, axes>>,
        terms |-> read.dict]

\* __str__ with LATEX = False, lines 216-220: get_human_term is called for
\* every element of powerset(AXES), and once more for those it renders
RECURSIVE CgaExpr_str_loop(_, _, _)
CgaExpr_str_loop(subsets, terms, out) ==
    IF subsets = <<>> \/ ~Evaluated(terms) THEN [text |-> out, terms |-> terms]
    ELSE LET test == get_human_term(terms, Head(subsets))
             item == get_human_term(test.terms, Head(subsets))
         IN IF test.text # <<>>
            THEN CgaExpr_str_loop(Tail(subsets), item.terms, Append(out, item.text))
            ELSE CgaExpr_str_loop(Tail(subsets), test.terms, out)

CgaExpr_str(self) == CgaExpr_str_loop(powerset(AXES), self, <<>>)

----------------------------------------------------------------------------
(* Client of CgaExpr: multivector values A and B, built and combined by at  *)
(* most MaxCgaOps constructor calls and operations.  A binary operation     *)
(* stores its result in place of its left operand.                          *)

CREGS == {"A", "B"}

\* Blade labels the client writes: any axis string up to MaxLabelLen
LabelInputs == SeqsUpTo(Range(AXES), MaxLabelLen)

\* Explicit blade -> number mappings: one or two of the labels over x and y
PairLabels == <<  <<"x">>, <<"y">>, <<"x", "x">>, <<"x", "y">>, <<"y", "x">>  >>

RECURSIVE CgaDictsFrom(_, _)
CgaDictsFrom(ki, n) ==
    IF n = 0 \/ ki > Len(PairLabels) THEN {<<>>}
    ELSE CgaDictsFrom(ki + 1, n)
         \cup {<< <<PairLabels[ki], 1>> >> \o d : d \in CgaDictsFrom(ki + 1, n - 1)}

CgaDictInputs == CgaDictsFrom(1, 2)

\* Polynomial coefficients the client attaches to a blade
CoefInputs == {ScalarExpr_str_name("a"),
               ScalarExpr_add(ScalarExpr_str_name("a"), ScalarExpr_str_name("b"))}

InitCga ==
    /\ pc = "call"
    /\ axes_in = <<>>
    /\ canon_out = NoCanon
    /\ gen_args = NoGenArgs
    /\ gen_out = <<>>
    /\ sreg = <<>>
    /\ sops = 0
    /\ text = <<>>
    /\ creg = [i \in CREGS |-> CgaExpr_none]
    /\ cops = 0
    /\ raised = "none"

CgaFrame == UNCHANGED <<pc, axes_in, canon_out, gen_args, gen_out, sreg, sops>>

\* an operation that returns a new value, stored in i
CgaDone ==
    /\ cops' = cops + 1
    /\ raised' = "none"
    /\ UNCHANGED text
    /\ CgaFrame

\* an operation that raises: no value is returned
CgaRaise ==
    /\ cops' = cops + 1
    /\ raised' = "StopIteration"
    /\ UNCHANGED <<creg, text>>
    /\ CgaFrame

\* i = CgaExpr(n)
CNumber(i) ==
    /\ cops < MaxCgaOps
    /\ \E n \in Literals : creg' = [creg EXCEPT ![i] = CgaExpr_number(n)]
    /\ CgaDone

\* i = CgaExpr('xy')
CLabel(i) ==
    /\ cops < MaxCgaOps
    /\ \E l \in LabelInputs : creg' = [creg EXCEPT ![i] = CgaExpr_str_label(l)]
    /\ CgaDone

\* i = CgaExpr({'xy': 1, 'yx': 1})
CDict(i) ==
    /\ cops < MaxCgaOps
    /\ \E d \in CgaDictInputs : creg' = [creg EXCEPT ![i] = CgaExpr_items_number(d)]
    /\ CgaDone

\* i = CgaExpr([('x', a)])
CItems(i) ==
    /\ cops < MaxCgaOps
    /\ \E c \in CoefInputs, l \in {<<>>, <<"-">>, <<"x">>} :
          creg' = [creg EXCEPT ![i] = CgaExpr_items(<< <<l, c>> >>)]
    /\ CgaDone

\* i = i + j
CAdd(i, j) ==
    /\ cops < MaxCgaOps
    /\ creg' = [creg EXCEPT ![i] = CgaExpr_add(creg[i], creg[j])]
    /\ CgaDone

\* i = i - j
CSub(i, j) ==
    /\ cops < MaxCgaOps
    /\ creg' = [creg EXCEPT ![i] = CgaExpr_sub(creg[i], creg[j])]
    /\ CgaDone

\* i = i * j
CMul(i, j) ==
    /\ cops < MaxCgaOps
    /\ creg' = [creg EXCEPT ![i] = CgaExpr_mul(creg[i], creg[j])]
    /\ CgaDone

\* i = i ^ j
CXor(i, j) ==
    /\ cops < MaxCgaOps
    /\ IF GradeRaises(creg[i]) \/ GradeRaises(creg[j])
       THEN CgaRaise
       ELSE creg' = [creg EXCEPT ![i] = CgaExpr_xor(creg[i], creg[j])] /\ CgaDone

\* i = i << j
CLshift(i, j) ==
    /\ cops < MaxCgaOps
    /\ IF GradeRaises(creg[i]) \/ GradeRaises(creg[j])
       THEN CgaRaise
       ELSE creg' = [creg EXCEPT ![i] = CgaExpr_lshift(creg[i], creg[j])] /\ CgaDone

\* i = -i
CNeg(i) ==
    /\ cops < MaxCgaOps
    /\ creg' = [creg EXCEPT ![i] = CgaExpr_neg(creg[i])]
    /\ CgaDone

\* i = i * n
CMulNumber(i) ==
    /\ cops < MaxCgaOps
    /\ \E n \in Literals : creg' = [creg EXCEPT ![i] = CgaExpr_mul_number(creg[i], n)]
    /\ CgaDone

\* i = i.rev
CRev(i) ==
    /\ cops < MaxCgaOps
    /\ creg' = [creg EXCEPT ![i] = CgaExpr_rev(creg[i])]
    /\ CgaDone

\* i = i.dual
CDual(i) ==
    /\ cops < MaxCgaOps
    /\ IF GradeRaises(creg[i])
       THEN CgaRaise
       ELSE creg' = [creg EXCEPT ![i] = CgaExpr_dual(creg[i])] /\ CgaDone

\* i = i.grade_project(g)
CGradeProject(i) ==
    /\ cops < MaxCgaOps
    /\ \E g \in 0..Len(AXES) :
          creg' = [creg EXCEPT ![i] = CgaExpr_grade_project(creg[i], g)]
    /\ CgaDone

\* str(i): the text is returned; the reads leave their keys in i's terms
CStr(i) ==
    /\ cops < MaxCgaOps
    /\ LET res == CgaExpr_str(creg[i])
       IN /\ text' = res.text
          /\ creg' = [creg EXCEPT ![i] = res.terms]
    /\ cops' = cops + 1
    /\ raised' = "none"
    /\ CgaFrame

\* i.s
CScalarPart(i) ==
    /\ cops < MaxCgaOps
    /\ text' = << <<"s", CgaExpr_s(creg[i])>> >>
    /\ cops' = cops + 1
    /\ raised' = "none"
    /\ UNCHANGED creg
    /\ CgaFrame

\* bool(i)
CBool(i) ==
    /\ cops < MaxCgaOps
    /\ text' = << <<"bool", CgaExpr_bool(creg[i])>> >>
    /\ cops' = cops + 1
    /\ raised' = "none"
    /\ UNCHANGED creg
    /\ CgaFrame

\* i.grade
CGrade(i) ==
    /\ cops < MaxCgaOps
    /\ IF GradeRaises(creg[i])
       THEN CgaRaise
       ELSE /\ text' = << <<"grade", CgaExpr_grade(creg[i])>> >>
            /\ cops' = cops + 1
            /\ raised' = "none"
            /\ UNCHANGED creg
            /\ CgaFrame

NextCga ==
    \E i \in CREGS :
        \/ CNumber(i)
        \/ CLabel(i)
        \/ CDict(i)
        \/ CItems(i)
        \/ CNeg(i)
        \/ CMulNumber(i)
        \/ CRev(i)
        \/ CDual(i)
        \/ CGradeProject(i)
        \/ CStr(i)
        \/ CScalarPart(i)
        \/ CBool(i)
        \/ CGrade(i)
        \/ \E j \in CREGS : CAdd(i, j)
        \/ \E j \in CREGS : CSub(i, j)
        \/ \E j \in CREGS : CMul(i, j)
        \/ \E j \in CREGS : CXor(i, j)
        \/ \E j \in CREGS : CLshift(i, j)

SpecCga == InitCga /\ [][NextCga]_vars

----------------------------------------------------------------------------
(* Client computing (A*B)*C and A*(B*C) for multivectors A, B, C built by   *)
(* the constructor from canonical blades with polynomial coefficients       *)

\* The canonical blade labels: every subset of AXES in the fixed order
Blades == Range(powerset(AXES))

Vectors == {b \in Blades : Len(b) = 1}

PolyA == ScalarExpr_str_name("a")

PolyAB == ScalarExpr_add(ScalarExpr_str_name("a"), ScalarExpr_str_name("b"))

\* CgaExpr('xy') for every blade, and CgaExpr([('x', a), ('y', a + b)]) for
\* every two vectors that are neighbours in the fixed order
AssocInputs ==
    {CgaExpr_str_label(b) : b \in Blades}
    \cup {CgaExpr_items(<< <<p[1], PolyA>>, <<p[2], PolyAB>> >>) :
             p \in {q \in Vectors \X Vectors : Rank(q[2][1]) = Rank(q[1][1]) + 1}}

InitAssoc ==
    /\ pc = "call"
    /\ axes_in = <<>>
    /\ canon_out = NoCanon
    /\ gen_args = NoGenArgs
    /\ gen_out = <<>>
    /\ sreg = <<>>
    /\ sops = 0
    /\ text = <<>>
    /\ creg \in [{"A", "B", "C"} -> AssocInputs]
    /\ cops = 0
    /\ raised = "none"

\* L = (A * B) * C; R = A * (B * C)
MulBothWays ==
    /\ pc = "call"
    /\ pc' = "done"
    /\ text' = << CgaExpr_mul(CgaExpr_mul(creg.A, creg.B), creg.C),
                  CgaExpr_mul(creg.A, CgaExpr_mul(creg.B, creg.C)) >>
    /\ UNCHANGED <<axes_in, canon_out, gen_args, gen_out, sreg, sops, creg, cops, raised>>

NextAssoc == MulBothWays

SpecAssoc == InitAssoc /\ [][NextAssoc]_vars

----------------------------------------------------------------------------
(* Client computing A.dual.dual for a nonzero homogeneous multivector A *)

Homogeneous(terms) ==
    \A m \in 1..Len(terms), n \in 1..Len(terms) : Len(terms[m][1]) = Len(terms[n][1])

SameGradePairs ==
    {p \in Blades \X Blades :
        Len(p[1]) = Len(p[2]) /\ p[1] # p[2]
        /\ \E n \in 1..Len(p[1]) :
              /\ Rank(p[1][n]) < Rank(p[2][n])
              /\ \A m \in 1..(n - 1) : p[1][m] = p[2][m]}

\* One blade with coefficient 1 or a + b; two blades of one grade with
\* coefficients a and a + b; and an explicit mapping in which two keys
\* canonicalize to the same label and cancel, beside a third blade
DualCandidates ==
    {CgaExpr_str_label(b) : b \in Blades}
    \cup {CgaExpr_items(<< <<b, PolyAB>> >>) : b \in Blades}
    \cup {CgaExpr_items(<< <<p[1], PolyA>>, <<p[2], PolyAB>> >>) : p \in SameGradePairs}
    \cup {CgaExpr_items_number(<< <<p[1], 1>>, <<Reversed(p[1]), 1>>, <<p[2], 1>> >>) :
             p \in {q \in SameGradePairs : Len(q[1]) = 2}}

DualInputs == {v \in DualCandidates : Homogeneous(v) /\ CgaExpr_bool(v)}

InitDual ==
    /\ pc = "call"
    /\ axes_in = <<>>
    /\ canon_out = NoCanon
    /\ gen_args = NoGenArgs
    /\ gen_out = <<>>
    /\ sreg = <<>>
    /\ sops = 0
    /\ text = <<>>
    /\ creg \in [{"A"} -> DualInputs]
    /\ cops = 0
    /\ raised = "none"

\* D = A.dual
DualOnce ==
    /\ pc = "call"
    /\ IF GradeRaises(creg.A)
       THEN pc' = "done" /\ raised' = "StopIteration" /\ UNCHANGED text
       ELSE pc' = "dual" /\ text' = << CgaExpr_dual(creg.A) >> /\ UNCHANGED raised
    /\ UNCHANGED <<axes_in, canon_out, gen_args, gen_out, sreg, sops, creg, cops>>

\* DD = D.dual
DualTwice ==
    /\ pc = "dual"
    /\ pc' = "done"
    /\ IF GradeRaises(text[1])
       THEN raised' = "StopIteration" /\ UNCHANGED text
       ELSE text' = Append(text, CgaExpr_dual(text[1])) /\ UNCHANGED raised
    /\ UNCHANGED <<axes_in, canon_out, gen_args, gen_out, sreg, sops, creg, cops>>

NextDual == DualOnce \/ DualTwice

SpecDual == InitDual /\ [][NextDual]_vars

----------------------------------------------------------------------------
(* src/gen_dodeca.py: the blade-multiplication generator *)

NDIM == 3

\* AXES of gen_dodeca.py (line 5)
GEN_AXES == <<"m", "p", "x", "y", "z", "w", "u", "v">>

\* components(grade): combinations of the first NDIM+2 axes
components(grade) == combinations(SubSeq(GEN_AXES, 1, NDIM + 2), grade)

\* prop(components): components or 's'
prop(c) == IF c = <<>> THEN <<"s">> ELSE c

\* (-1) ** n
NegOnePow(n) == IF n % 2 = 0 THEN 1 ELSE -1

\* ret.endswith(ax + ax)
EndsWithPair(ret, ax) ==
    Len(ret) >= 2 /\ ret[Len(ret) - 1] = ax /\ ret[Len(ret)] = ax

\* (mutant of the loop of multiply_axes: a squared 'm' does not flip the sign)
RECURSIVE multiply_axes_loop_nometric(_, _, _, _, _)
multiply_axes_loop_nometric(i, a, b, ret, sign) ==
    IF i > Len(GEN_AXES)
    THEN [ret |-> ret, sign |-> sign, raised |-> a # <<>> \/ b # <<>>]
    ELSE IF a = <<>> \/ b = <<>>
    THEN [ret |-> ret \o a \o b, sign |-> sign, raised |-> FALSE]
    ELSE LET ax    == GEN_AXES[i]
             hitA  == a[1] = ax
             ret1  == IF hitA THEN Append(ret, ax) ELSE ret
             a1    == IF hitA THEN Tail(a) ELSE a
             hitB  == b[1] = ax
             ret2  == IF hitB THEN Append(ret1, ax) ELSE ret1
             b1    == IF hitB THEN Tail(b) ELSE b
             sign1 == IF hitB THEN sign * NegOnePow(Len(a1)) ELSE sign
             pair  == EndsWithPair(ret2, ax)
             ret3  == IF pair THEN SubSeq(ret2, 1, Len(ret2) - 2) ELSE ret2
         IN multiply_axes_loop_nometric(i + 1, a1, b1, ret3, sign1)

\* lines 60-76: the loop over AXES, from the i-th axis on.  The result carries
\* raised = TRUE when line 75 raises.
RECURSIVE multiply_axes_loop(_, _, _, _, _)
multiply_axes_loop(i, a, b, ret, sign) ==
    IF i > Len(GEN_AXES)
    THEN [ret |-> ret, sign |-> sign, raised |-> a # <<>> \/ b # <<>>]
    ELSE IF a = <<>> \/ b = <<>>
    THEN [ret |-> ret \o a \o b, sign |-> sign, raised |-> FALSE]
    ELSE LET ax    == GEN_AXES[i]
             hitA  == a[1] = ax
             ret1  == IF hitA THEN Append(ret, ax) ELSE ret
             a1    == IF hitA THEN Tail(a) ELSE a
             hitB  == b[1] = ax
             ret2  == IF hitB THEN Append(ret1, ax) ELSE ret1
             b1    == IF hitB THEN Tail(b) ELSE b
             sign1 == IF hitB THEN sign * NegOnePow(Len(a1)) ELSE sign
             pair  == EndsWithPair(ret2, ax)
             ret3  == IF pair THEN SubSeq(ret2, 1, Len(ret2) - 2) ELSE ret2
             sign2 == IF pair /\ ax = "m" THEN sign1 * (-1) ELSE sign1
         IN multiply_axes_loop(i + 1, a1, b1, ret3, sign2)

multiply_axes(a, b) == multiply_axes_loop(1, a, b, <<>>, 1)

\* line 48: one accumulation line of the kernel, as the pieces of the f-string
AccumulateLine(ab, sign, a, b) ==
    <<"  ret.">> \o prop(ab) \o <<" += ", sign, "a.">> \o prop(a)
                 \o <<" * b.">> \o prop(b) \o <<";\n">>

\* lines 44-48: for b in components(s)
RECURSIVE gen_mul_func_inner(_, _, _, _)
gen_mul_func_inner(a, bs, result_grade, ret) ==
    IF bs = <<>> \/ ~Evaluated(ret) THEN ret
    ELSE LET b    == Head(bs)
             m    == multiply_axes(a, b)
             sign == IF m.sign < 0 THEN "-" ELSE " "
         IN gen_mul_func_inner(a, Tail(bs), result_grade,
                IF Len(m.ret) = result_grade
                THEN Append(ret, AccumulateLine(m.ret, sign, a, b))
                ELSE ret)

\* lines 43-48: for a in components(r)
RECURSIVE gen_mul_func_outer(_, _, _, _)
gen_mul_func_outer(as, bs, result_grade, ret) ==
    IF as = <<>> \/ ~Evaluated(ret) THEN ret
    ELSE gen_mul_func_outer(Tail(as), bs, result_grade,
             gen_mul_func_inner(Head(as), bs, result_grade, ret))

\* lines 37 and 40: the signature and the declaration of the return value
KernelHead(funcname, r, s, result_grade) ==
    << <<"Blade", ToString(result_grade), " ", funcname, "_",
         ToString(r), "_", ToString(s), "(Blade", ToString(r),
         " a, Blade", ToString(s), " b) {\n">>,
       <<"  Blade", ToString(result_grade), " ret;\n">> >>

\* lines 51 and 53
KernelTail == << <<"  return ret;\n">>, <<"}\n">> >>

\* gen_mul_func: the kernel text as its lines, each line the pieces of its
\* f-string; '' is the text of no lines
gen_mul_func(funcname, r, s, result_grade) ==
    IF result_grade <= 0 THEN <<>>
    ELSE gen_mul_func_outer(components(r), components(s), result_grade,
                            KernelHead(funcname, r, s, result_grade))
           \o KernelTail

gen_wedge_fn(r, s) == gen_mul_func("wedge", r, s, r + s)

gen_left_contract_fn(r, s) == gen_mul_func("lc", r, s, s - r)

----------------------------------------------------------------------------
(* Client of the generator: one kernel, or one product of two of the        *)
(* components the kernel's loops pair up                                    *)

Grades == 0..(NDIM + 2)

ResultGrades == (0 - (NDIM + 2))..(2 * (NDIM + 2))

InitGen ==
    /\ pc = "call"
    /\ axes_in = <<>>
    /\ canon_out = NoCanon
    /\ gen_args \in [funcname : {"wedge", "lc"}, r : Grades, s : Grades,
                     result_grade : ResultGrades]
    /\ gen_out = <<>>
    /\ sreg = <<>>
    /\ sops = 0
    /\ text = <<>>
    /\ creg = <<>>
    /\ cops = 0
    /\ raised = "none"

\* gen_mul_func(funcname, r, s, result_grade)
CallGenMulFunc ==
    /\ pc = "call"
    /\ pc' = "done"
    /\ gen_out' = gen_mul_func(gen_args.funcname, gen_args.r, gen_args.s,
                               gen_args.result_grade)
    /\ UNCHANGED <<axes_in, canon_out, gen_args, sreg, sops, text, creg, cops, raised>>

\* line 45: ab, sign = multiply_axes(a, b) for one a and one b of the loops
CallMultiplyAxes ==
    /\ pc = "call"
    /\ \E a \in Range(components(gen_args.r)), b \in Range(components(gen_args.s)) :
         LET m == multiply_axes(a, b)
         IN /\ axes_in' = <<a, b>>
            /\ IF m.raised
               THEN raised' = "Exception" /\ UNCHANGED canon_out
               ELSE canon_out' = [ret |-> m.ret, sign |-> m.sign] /\ UNCHANGED raised
    /\ pc' = "multiplied"
    /\ UNCHANGED <<gen_args, gen_out, sreg, sops, text, creg, cops>>

NextGen == CallGenMulFunc \/ CallMultiplyAxes

SpecGen == InitGen /\ [][NextGen]_vars

----------------------------------------------------------------------------
(* src/gen_dodeca.py: the batch run of lines 79-86 *)

\* lines 19-20: ret += f' float {prop(component)};' for each component
RECURSIVE gen_blade_struct_loop(_, _)
gen_blade_struct_loop(cs, ret) ==
    IF cs = <<>> \/ ~Evaluated(ret) THEN ret
    ELSE gen_blade_struct_loop(Tail(cs), ret \o <<" float ">> \o prop(Head(cs)) \o <<";">>)

\* gen_blade_struct: the text as the pieces of its f-strings
gen_blade_struct(r) ==
    gen_blade_struct_loop(components(r), <<"struct Blade", ToString(r), " {">>) \o <<" };">>

\* The printed output is a sequence of items: a struct declaration, a kernel
\* ('' included) or the blank line of print()
Printed(kind, body) == [kind |-> kind, body |-> body]

\* The call that follows gen_left_contract_fn(i, j) in the loops of lines
\* 83-86, or no call after the last
LastGrade == NDIM + 1

NextCall(i, j) ==
    IF j < LastGrade
    THEN [funcname |-> "wedge", r |-> i, s |-> j + 1, result_grade |-> i + j + 1]
    ELSE IF i < LastGrade
    THEN [funcname |-> "wedge", r |-> i + 1, s |-> 1, result_grade |-> i + 2]
    ELSE NoGenArgs

\* pc is "structs" in the loop of lines 79-80 (sops the next grade), "call"
\* before a call of gen_mul_func with gen_args, "rows" in its loop of line 43
\* (sops the position of the next a, gen_out the text so far), "done" at the
\* end; text is the output printed so far.
InitBatch ==
    /\ pc = "structs"
    /\ axes_in = <<>>
    /\ canon_out = NoCanon
    /\ gen_args = NoGenArgs
    /\ gen_out = <<>>
    /\ sreg = <<>>
    /\ sops = 0
    /\ text = <<>>
    /\ creg = <<>>
    /\ cops = 0
    /\ raised = "none"

BatchFrame == UNCHANGED <<axes_in, canon_out, sreg, creg, cops, raised>>

\* lines 79-80: print(gen_blade_struct(i))
PrintBladeStruct ==
    /\ pc = "structs"
    /\ sops < NDIM + 3
    /\ text' = Append(text, Printed("struct", gen_blade_struct(sops)))
    /\ sops' = sops + 1
    /\ UNCHANGED <<pc, gen_args, gen_out>>
    /\ BatchFrame

\* lines 81-84: print(); print(); the loops begin with gen_wedge_fn(1, 1)
PrintBlankLines ==
    /\ pc = "structs"
    /\ sops = NDIM + 3
    /\ text' = text \o <<Printed("blank", <<>>), Printed("blank", <<>>)>>
    /\ pc' = "call"
    /\ gen_args' = [funcname |-> "wedge", r |-> 1, s |-> 1, result_grade |-> 1 + 1]
    /\ sops' = 0
    /\ UNCHANGED gen_out
    /\ BatchFrame

\* The kernel is printed and the loops go on: after gen_wedge_fn(i, j) comes
\* gen_left_contract_fn(i, j), after that the next j, then the next i
PrintKernel(kernel) ==
    /\ text' = Append(text, Printed("kernel", kernel))
    /\ gen_out' = kernel
    /\ sops' = 0
    /\ LET after == IF gen_args.funcname = "wedge"
                    THEN [funcname |-> "lc", r |-> gen_args.r, s |-> gen_args.s,
                          result_grade |-> gen_args.s - gen_args.r]
                    ELSE NextCall(gen_args.r, gen_args.s)
       IN /\ gen_args' = after
          /\ pc' = IF after = NoGenArgs THEN "done" ELSE "call"
    /\ BatchFrame

\* lines 34-40: gen_mul_func returns '' at once, or writes the signature and
\* the declaration of ret
EnterMulFunc ==
    /\ pc = "call"
    /\ IF gen_args.result_grade <= 0
       THEN PrintKernel(<<>>)
       ELSE /\ pc' = "rows"
            /\ gen_out' = KernelHead(gen_args.funcname, gen_args.r, gen_args.s,
                                     gen_args.result_grade)
            /\ sops' = 1
            /\ UNCHANGED <<text, gen_args>>
            /\ BatchFrame

\* lines 43-48: one a of components(r), with the whole loop over b
MulFuncRow ==
    /\ pc = "rows"
    /\ sops <= Len(components(gen_args.r))
    /\ gen_out' = gen_mul_func_inner(components(gen_args.r)[sops], components(gen_args.s),
                                     gen_args.result_grade, gen_out)
    /\ sops' = sops + 1
    /\ UNCHANGED <<pc, text, gen_args>>
    /\ BatchFrame

\* lines 51-54 and the print of lines 85-86
ReturnMulFunc ==
    /\ pc = "rows"
    /\ sops > Len(components(gen_args.r))
    /\ PrintKernel(gen_out \o KernelTail)

NextBatch ==
    PrintBladeStruct \/ PrintBlankLines \/ EnterMulFunc \/ MulFuncRow \/ ReturnMulFunc

SpecBatch == InitBatch /\ [][NextBatch]_vars

----------------------------------------------------------------------------
(* Python numbers: int and float (IEEE 754 binary64, round to nearest even) *)
(*                                                                         *)
(* A number is [type, val, man, exp].  An int n is type "int" with val = n. *)
(* A float is type "float" with val its sign (-1, 0, 1) and magnitude       *)
(* man * 2^exp, man a sequence of bits, least significant first, that is    *)
(* empty for zero and otherwise begins and ends with 1.  The sign of a zero *)
(* and the limits of the exponent are left out: no product or sum of the    *)
(* inputs used here comes near them.                                        *)

\* sys.float_info.mant_dig of the float that the literal 0.5 is
MANT_DIG == 53

PyInt(n) == [type |-> "int", val |-> n, man |-> <<>>, exp |-> 0]

FloatZero == [type |-> "float", val |-> 0, man |-> <<>>, exp |-> 0]

\* Drop the high zero bits
TrimHigh(bits) ==
    IF \A i \in 1..Len(bits) : bits[i] = 0 THEN <<>>
    ELSE SubSeq(bits, 1, CHOOSE i \in 1..Len(bits) :
                            bits[i] = 1 /\ \A j \in (i + 1)..Len(bits) : bits[j] = 0)

\* Number of low zero bits of a sequence that holds a 1
LowZeros(bits) == (CHOOSE i \in 1..Len(bits) : bits[i] = 1 /\ \A j \in 1..(i - 1) : bits[j] = 0) - 1

\* Carries are propagated over groups of ChunkBits digits at a time
ChunkBits == MANT_DIG \div 4

DigitAt(digits, i) == IF i >= 1 /\ i <= Len(digits) THEN digits[i] ELSE 0

\* digits[first] + 2 * digits[first + 1] + ... over n digits
RECURSIVE ChunkValue(_, _, _)
ChunkValue(digits, first, n) ==
    IF n = 0 THEN 0
    ELSE DigitAt(digits, first) + 2 * ChunkValue(digits, first + 1, n - 1)

Chunks(digits) ==
    [m \in 1..((Len(digits) + ChunkBits - 1) \div ChunkBits) |->
        ChunkValue(digits, (m - 1) * ChunkBits + 1, ChunkBits)]

\* Each chunk reduced below 2^ChunkBits, the excess carried into the next
RECURSIVE CarryChunks(_, _, _, _)
CarryChunks(chunks, m, carry, out) ==
    IF (m > Len(chunks) /\ carry = 0) \/ ~Evaluated(out) THEN out
    ELSE LET d    == (IF m <= Len(chunks) THEN chunks[m] ELSE 0) + carry
             kept == d % (2 ^ ChunkBits)
         IN CarryChunks(chunks, m + 1, (d - kept) \div (2 ^ ChunkBits), Append(out, kept))

\* Carry propagation: the bits of the number whose i-th digit is digits[i],
\* a digit being any integer
Propagate(digits) ==
    LET limbs == CarryChunks(Chunks(digits), 1, 0, <<>>)
    IN [i \in 1..(Len(limbs) * ChunkBits) |->
           (limbs[((i - 1) \div ChunkBits) + 1] \div (2 ^ ((i - 1) % ChunkBits))) % 2]

BitAt(bits, i) == IF i >= 1 /\ i <= Len(bits) THEN bits[i] ELSE 0

Max(m, n) == IF m >= n THEN m ELSE n

BitsAdd(a, b) ==
    TrimHigh(Propagate([i \in 1..Max(Len(a), Len(b)) |-> BitAt(a, i) + BitAt(b, i)]))

\* a - b for a >= b
BitsSub(a, b) ==
    TrimHigh(Propagate([i \in 1..Len(a) |-> BitAt(a, i) - BitAt(b, i)]))

BitsMul(a, b) ==
    IF a = <<>> \/ b = <<>> THEN <<>>
    ELSE TrimHigh(Propagate(
             [k \in 1..(Len(a) + Len(b) - 1) |->
                 Cardinality({i \in 1..Len(a) :
                     a[i] = 1 /\ BitAt(b, k - i + 1) = 1})]))

\* a < b, for sequences with no high zero bits
BitsLess(a, b) ==
    \/ Len(a) < Len(b)
    \/ /\ Len(a) = Len(b)
       /\ \E i \in 1..Len(a) :
             a[i] < b[i] /\ \A j \in (i + 1)..Len(a) : a[j] = b[j]

\* a * 2^k, k >= 0
ShiftLeft(a, k) == IF a = <<>> THEN <<>> ELSE [i \in 1..k |-> 0] \o a

RECURSIVE NatBits(_)
NatBits(n) == IF n = 0 THEN <<>> ELSE <<n % 2>> \o NatBits(n \div 2)

\* The float of sign val and magnitude bits * 2^exp, rounded to MANT_DIG
\* bits, ties to even
FloatRound(val, bits, exp) ==
    IF bits = <<>> \/ val = 0 THEN FloatZero
    ELSE LET k       == Len(bits) - MANT_DIG
             kept    == IF k > 0 THEN SubSeq(bits, k + 1, Len(bits)) ELSE bits
             half    == k > 0 /\ bits[k] = 1
             sticky  == \E i \in 1..(k - 1) : bits[i] = 1
             up      == half /\ (sticky \/ kept[1] = 1)
             rounded == IF up THEN BitsAdd(kept, <<1>>) ELSE kept
             e       == IF k > 0 THEN exp + k ELSE exp
             z       == LowZeros(rounded)
         IN [type |-> "float", val |-> val,
             man |-> SubSeq(rounded, z + 1, Len(rounded)), exp |-> e + z]

\* float(n)
ToFloat(x) ==
    IF x.type = "float" THEN x
    ELSE FloatRound(IF x.val < 0 THEN -1 ELSE IF x.val > 0 THEN 1 ELSE 0,
                    NatBits(IF x.val < 0 THEN 0 - x.val ELSE x.val), 0)

FloatMul(x, y) == FloatRound(x.val * y.val, BitsMul(x.man, y.man), x.exp + y.exp)

FloatAdd(x, y) ==
    IF x.val = 0 THEN y
    ELSE IF y.val = 0 THEN x
    ELSE LET e  == IF x.exp <= y.exp THEN x.exp ELSE y.exp
             xm == ShiftLeft(x.man, x.exp - e)
             ym == ShiftLeft(y.man, y.exp - e)
         IN IF x.val = y.val THEN FloatRound(x.val, BitsAdd(xm, ym), e)
            ELSE IF xm = ym THEN FloatZero
            ELSE IF BitsLess(xm, ym) THEN FloatRound(y.val, BitsSub(ym, xm), e)
            ELSE FloatRound(x.val, BitsSub(xm, ym), e)

\* x * y of Python: int * int is an int, anything else a float
NumMul(x, y) ==
    IF x.type = "int" /\ y.type = "int" THEN PyInt(x.val * y.val)
    ELSE FloatMul(ToFloat(x), ToFloat(y))

\* x + y of Python
NumAdd(x, y) ==
    IF x.type = "int" /\ y.type = "int" THEN PyInt(x.val + y.val)
    ELSE FloatAdd(ToFloat(x), ToFloat(y))

\* x != 0, and bool(x)
NumNonZero(x) == x.val # 0

\* float.fromhex: the float whose magnitude is the hexadecimal digits, most
\* significant first, times 2^exp
RECURSIVE HexBits(_)
HexBits(digits) ==
    IF digits = <<>> THEN <<>>
    ELSE LET d == digits[Len(digits)]
         IN <<d % 2, (d \div 2) % 2, (d \div 4) % 2, d \div 8>>
              \o HexBits(SubSeq(digits, 1, Len(digits) - 1))

PyFloat(val, digits, exp) == FloatRound(val, TrimHigh(HexBits(digits)), exp)

----------------------------------------------------------------------------
(* src/concept/cga.py: ScalarExpr and CgaExpr over Python numbers, as       *)
(* point_at uses them (the coefficient 0.5 is a float)                      *)

\* defaultdict(lambda: 0): terms[k] += v
AddCoefNum(terms, k, v) == SetItem(terms, k, NumAdd(DefaultGet(terms, k, PyInt(0)).value, v))

\* lines 56-59: for k, v in terms: if v != 0: self.terms[tuple(sorted(k))] += v
RECURSIVE ScalarExprNum_init(_, _)
ScalarExprNum_init(items, terms) ==
    IF items = <<>> \/ ~Evaluated(terms) THEN terms
    ELSE LET k == Head(items)[1]
             v == Head(items)[2]
         IN ScalarExprNum_init(Tail(items),
                IF NumNonZero(v) THEN AddCoefNum(terms, sorted(k), v) ELSE terms)

ScalarExprNum_items(items) == ScalarExprNum_init(items, <<>>)

\* ScalarExpr(number)
ScalarExprNum_number(n) == ScalarExprNum_init(<< <<<<>>, n>> >>, <<>>)

\* ScalarExpr(str)
ScalarExprNum_str_name(name) == ScalarExprNum_init(<< <<<<name>>, PyInt(1)>> >>, <<>>)

RECURSIVE ScalarExprNum_mul_inner(_, _, _, _)
ScalarExprNum_mul_inner(vars1, coef1, items2, new_terms) ==
    IF items2 = <<>> \/ ~Evaluated(new_terms) THEN new_terms
    ELSE ScalarExprNum_mul_inner(vars1, coef1, Tail(items2),
             AddCoefNum(new_terms, vars1 \o Head(items2)[1], NumMul(coef1, Head(items2)[2])))

RECURSIVE ScalarExprNum_mul_outer(_, _, _)
ScalarExprNum_mul_outer(items1, items2, new_terms) ==
    IF items1 = <<>> \/ ~Evaluated(new_terms) THEN new_terms
    ELSE ScalarExprNum_mul_outer(Tail(items1), items2,
             ScalarExprNum_mul_inner(Head(items1)[1], Head(items1)[2], items2, new_terms))

\* __mul__ with a ScalarExpr right operand
ScalarExprNum_mul(self, rhs) == ScalarExprNum_items(ScalarExprNum_mul_outer(self, rhs, <<>>))

\* __mul__ with a number
ScalarExprNum_mul_number(self, rhs) ==
    ScalarExprNum_items([i \in 1..Len(self) |-> <<self[i][1], NumMul(self[i][2], rhs)>>])

RECURSIVE ScalarExprNum_add_loop(_, _)
ScalarExprNum_add_loop(items, new_terms) ==
    IF items = <<>> \/ ~Evaluated(new_terms) THEN new_terms
    ELSE ScalarExprNum_add_loop(Tail(items),
             AddCoefNum(new_terms, Head(items)[1], Head(items)[2]))

\* __add__ with a ScalarExpr right operand
ScalarExprNum_add(self, rhs) ==
    ScalarExprNum_items(SelectSeq(ScalarExprNum_add_loop(rhs, self),
                                  LAMBDA kv : NumNonZero(kv[2])))

\* __add__ with a number: self + ScalarExpr([('', rhs)])
ScalarExprNum_add_number(self, rhs) ==
    ScalarExprNum_add(self, ScalarExprNum_items(<< <<<<>>, rhs>> >>))

\* __bool__
ScalarExprNum_bool(self) == \E i \in 1..Len(self) : NumNonZero(self[i][2])

\* defaultdict(ScalarExpr): terms[k] += coef, coef a ScalarExpr
AddPolyNum(terms, k, coef) ==
    SetItem(terms, k, ScalarExprNum_add(DefaultGet(terms, k, ScalarExpr_none).value, coef))

\* defaultdict(ScalarExpr): terms[k] += n, n a number
AddPolyNumNumber(terms, k, n) ==
    SetItem(terms, k, ScalarExprNum_add_number(DefaultGet(terms, k, ScalarExpr_none).value, n))

\* lines 151-155 with ScalarExpr values
RECURSIVE CgaExprNum_init(_, _)
CgaExprNum_init(items, terms) ==
    IF items = <<>> \/ ~Evaluated(terms) THEN terms
    ELSE LET k == Head(items)[1]
             v == Head(items)[2]
             c == canonicalize(k)
         IN CgaExprNum_init(Tail(items),
                IF ScalarExprNum_bool(v)
                THEN AddPolyNum(terms, c.ret, ScalarExprNum_mul_number(v, PyInt(c.sign)))
                ELSE terms)

\* lines 151-155 with number values
RECURSIVE CgaExprNum_init_number(_, _)
CgaExprNum_init_number(items, terms) ==
    IF items = <<>> \/ ~Evaluated(terms) THEN terms
    ELSE LET k == Head(items)[1]
             v == Head(items)[2]
             c == canonicalize(k)
         IN CgaExprNum_init_number(Tail(items),
                IF NumNonZero(v)
                THEN AddPolyNumNumber(terms, c.ret, NumMul(v, PyInt(c.sign)))
                ELSE terms)

CgaExprNum_items(items) == CgaExprNum_init(items, <<>>)

CgaExprNum_items_number(items) == CgaExprNum_init_number(items, <<>>)

RECURSIVE CgaExprNum_mul_inner(_, _, _, _)
CgaExprNum_mul_inner(axes1, coef1, items2, new_terms) ==
    IF items2 = <<>> \/ ~Evaluated(new_terms) THEN new_terms
    ELSE LET c    == canonicalize(axes1 \o Head(items2)[1])
             coef == ScalarExprNum_mul_number(ScalarExprNum_mul(coef1, Head(items2)[2]),
                                              PyInt(c.sign))
         IN CgaExprNum_mul_inner(axes1, coef1, Tail(items2),
                                 AddPolyNum(new_terms, c.ret, coef))

RECURSIVE CgaExprNum_mul_outer(_, _, _)
CgaExprNum_mul_outer(items1, items2, new_terms) ==
    IF items1 = <<>> \/ ~Evaluated(new_terms) THEN new_terms
    ELSE CgaExprNum_mul_outer(Tail(items1), items2,
             CgaExprNum_mul_inner(Head(items1)[1], Head(items1)[2], items2, new_terms))

\* __mul__ with a CgaExpr right operand
CgaExprNum_mul(self, rhs) == CgaExprNum_items(CgaExprNum_mul_outer(self, rhs, <<>>))

\* __mul__ with a number
CgaExprNum_mul_number(self, rhs) ==
    CgaExprNum_items([n \in 1..Len(self) |->
                         <<self[n][1], ScalarExprNum_mul_number(self[n][2], rhs)>>])

\* __mul__ with a ScalarExpr
CgaExprNum_mul_scalar(self, rhs) ==
    CgaExprNum_items([n \in 1..Len(self) |->
                         <<self[n][1], ScalarExprNum_mul(self[n][2], rhs)>>])

RECURSIVE CgaExprNum_add_loop(_, _)
CgaExprNum_add_loop(items, new_terms) ==
    IF items = <<>> \/ ~Evaluated(new_terms) THEN new_terms
    ELSE CgaExprNum_add_loop(Tail(items),
                             AddPolyNum(new_terms, Head(items)[1], Head(items)[2]))

\* __add__ with a CgaExpr right operand
CgaExprNum_add(self, rhs) == CgaExprNum_items(CgaExprNum_add_loop(rhs, self))

\* s: self.terms.get('', ScalarExpr(0))
CgaExprNum_s(self) ==
    IF HasKey(self, <<>>) THEN Get(self, <<>>) ELSE ScalarExprNum_number(PyInt(0))

\* the literal 0.5
Half == PyFloat(1, <<1>>, -1)

\* lines 280-281
NI == CgaExprNum_items_number(<< << <<"-">>, PyInt(1)>>, << <<"+">>, PyInt(1)>> >>)

NO ==
    CgaExprNum_mul_number(
        CgaExprNum_items_number(<< << <<"-">>, PyInt(1)>>, << <<"+">>, PyInt(-1)>> >>), Half)

\* point_at(x) for a number x: mag2 = x*x;
\* NO + CgaExpr([('x', x)]) + NI * 0.5 * mag2
point_at_number(x) ==
    LET mag2 == NumMul(x, x)
    IN CgaExprNum_add(
           CgaExprNum_add(NO, CgaExprNum_items_number(<< << <<"x">>, x>> >>)),
           CgaExprNum_mul_number(CgaExprNum_mul_number(NI, Half), mag2))

\* point_at(x) for a ScalarExpr x
point_at_scalar(x) ==
    LET mag2 == ScalarExprNum_mul(x, x)
    IN CgaExprNum_add(
           CgaExprNum_add(NO, CgaExprNum_items(<< << <<"x">>, x>> >>)),
           CgaExprNum_mul_scalar(CgaExprNum_mul_number(NI, Half), mag2))

----------------------------------------------------------------------------
(* Client computing (point_at(x) * point_at(x)).s for one coordinate x,     *)
(* held in sreg as a number (num) or a ScalarExpr (poly)                    *)

\* int literals
IntCoords == {PyInt(n) : n \in (0 - MaxCoord)..MaxCoord}

\* float literals 0.5, 1.5, 0.25, -0.75, 2.5, 0.1, 0.2, 0.3, -0.7, 3.3, 100000000.0, each as float.hex gives it
FloatCoords ==
    {PyFloat(1, <<1>>, -1),
     PyFloat(1, <<3>>, -1),
     PyFloat(1, <<1>>, -2),
     PyFloat(-1, <<3>>, -2),
     PyFloat(1, <<5>>, -1),
     PyFloat(1, <<12, 12, 12, 12, 12, 12, 12, 12, 12, 12, 12, 12, 13>>, -55),
     PyFloat(1, <<12, 12, 12, 12, 12, 12, 12, 12, 12, 12, 12, 12, 13>>, -54),
     PyFloat(1, <<1, 3, 3, 3, 3, 3, 3, 3, 3, 3, 3, 3, 3, 3>>, -54),
     PyFloat(-1, <<11, 3, 3, 3, 3, 3, 3, 3, 3, 3, 3, 3, 3>>, -52),
     PyFloat(1, <<13, 3, 3, 3, 3, 3, 3, 3, 3, 3, 3, 3, 3>>, -50),
     PyFloat(1, <<5, 15, 5, 14, 1>>, 8)}

PolyNumA == ScalarExprNum_str_name("a")

PolyNumB == ScalarExprNum_str_name("b")

\* a, b, a + b, a + 1, a * b, a * 2, a * 0.5, a + 0.5, (a + b) * (a + b)
PolyCoords ==
    {PolyNumA, PolyNumB,
     ScalarExprNum_add(PolyNumA, PolyNumB),
     ScalarExprNum_add_number(PolyNumA, PyInt(1)),
     ScalarExprNum_mul(PolyNumA, PolyNumB),
     ScalarExprNum_mul_number(PolyNumA, PyInt(2)),
     ScalarExprNum_mul_number(PolyNumA, Half),
     ScalarExprNum_add_number(PolyNumA, Half),
     ScalarExprNum_mul(ScalarExprNum_add(PolyNumA, PolyNumB),
                       ScalarExprNum_add(PolyNumA, PolyNumB))}

PointInputs ==
    {[kind |-> "number", num |-> n, poly |-> <<>>] : n \in IntCoords \cup FloatCoords}
    \cup {[kind |-> "scalar", num |-> PyInt(0), poly |-> p] : p \in PolyCoords}

InitPoint ==
    /\ pc = "call"
    /\ axes_in = <<>>
    /\ canon_out = NoCanon
    /\ gen_args = NoGenArgs
    /\ gen_out = <<>>
    /\ sreg \in PointInputs
    /\ sops = 0
    /\ text = <<>>
    /\ creg = <<>>
    /\ cops = 0
    /\ raised = "none"

\* P = point_at(x)
CallPointAt ==
    /\ pc = "call"
    /\ pc' = "point"
    /\ creg' = [P |-> IF sreg.kind = "number" THEN point_at_number(sreg.num)
                      ELSE point_at_scalar(sreg.poly)]
    /\ UNCHANGED <<axes_in, canon_out, gen_args, gen_out, sreg, sops, text, cops, raised>>

\* Q = P * P
SquarePoint ==
    /\ pc = "point"
    /\ pc' = "squared"
    /\ creg' = [P |-> creg.P, Q |-> CgaExprNum_mul(creg.P, creg.P)]
    /\ UNCHANGED <<axes_in, canon_out, gen_args, gen_out, sreg, sops, text, cops, raised>>

\* Q.s
ScalarPartOfSquare ==
    /\ pc = "squared"
    /\ pc' = "done"
    /\ text' = << CgaExprNum_s(creg.Q) >>
    /\ UNCHANGED <<axes_in, canon_out, gen_args, gen_out, sreg, sops, creg, cops, raised>>

NextPoint == CallPointAt \/ SquarePoint \/ ScalarPartOfSquare

SpecPoint == InitPoint /\ [][NextPoint]_vars

----------------------------------------------------------------------------
(* C1 *)

Occurrences(s, c) == Cardinality({i \in 1..Len(s) : s[i] = c})

Inversions(s) ==
    Cardinality({p \in (1..Len(s)) \X (1..Len(s)) :
                    p[1] < p[2] /\ Rank(s[p[1]]) > Rank(s[p[2]])})

OddAxes(s) == SelectSeq(AXES, LAMBDA c : Occurrences(s, c) % 2 = 1)

\* C1: canonicalize returns the axes that occur an odd number of times, in
\* the fixed order and once each, and the sign is -1 exactly when the number
\* of inversions plus floor(occurrences of '-' / 2) is odd, +1 otherwise.
C1_CanonicalizeContract ==
    pc = "done" /\ canon_out # NoCanon =>
        /\ canon_out.ret = OddAxes(axes_in)
        /\ canon_out.sign \in {-1, 1}
        /\ canon_out.sign = -1 <=>
             (Inversions(axes_in) + (Occurrences(axes_in, "-") \div 2)) % 2 = 1

\* An input with a triple axis, a doubled '-' and inversions, canonicalized.
C1_Witness ==
    /\ pc = "done"
    /\ axes_in = <<"x", "-", "x", "-", "x">>
    /\ canon_out = [ret |-> <<"x">>, sign |-> 1]

----------------------------------------------------------------------------
(* C2 *)

\* The renaming m -> '-', p -> '+' of a generator label, symbol by symbol
Renamed(label) ==
    [i \in 1..Len(label) |->
        IF label[i] = "m" THEN "-" ELSE IF label[i] = "p" THEN "+" ELSE label[i]]

TokenPos(line, tok) == CHOOSE i \in 1..Len(line) : line[i] = tok

IsAccumulation(line) == Len(line) > 0 /\ line[1] = "  ret."

\* The accumulation term a kernel line reads as: ret.<field> += <sign>a.<a> * b.<b>;
ParsedTerm(line) ==
    LET p1 == TokenPos(line, " += ")
        p2 == TokenPos(line, " * b.")
    IN [field |-> Renamed(SubSeq(line, 2, p1 - 1)),
        sign  |-> line[p1 + 1],
        a     |-> Renamed(SubSeq(line, p1 + 3, p2 - 1)),
        b     |-> Renamed(SubSeq(line, p2 + 1, Len(line) - 1))]

EmittedTerms(kernel) ==
    {ParsedTerm(kernel[n]) : n \in {i \in 1..Len(kernel) : IsAccumulation(kernel[i])}}

SignText(sign) == IF sign < 0 THEN "-" ELSE " "

\* The terms of the fully distributed product of grade-r by grade-s blades
\* that canonicalize places in grade t
CanonicalTerms(r, s, t) ==
    {[field |-> canonicalize(Renamed(ab[1] \o ab[2])).ret,
      sign  |-> SignText(canonicalize(Renamed(ab[1] \o ab[2])).sign),
      a     |-> Renamed(prop(ab[1])),
      b     |-> Renamed(prop(ab[2]))] :
        ab \in {q \in Range(components(r)) \X Range(components(s)) :
                   Len(canonicalize(Renamed(q[1] \o q[2])).ret) = t}}

\* The terms of CgaExpr(a) ^ CgaExpr(b) over the blades a of grade r and b of
\* grade s, for the products that are not zero
SymbolicWedgeTerms(r, s) ==
    {[field |-> CgaExpr_xor(CgaExpr_str_label(Renamed(ab[1])),
                            CgaExpr_str_label(Renamed(ab[2])))[1][1],
      sign  |-> SignText(Get(CgaExpr_xor(CgaExpr_str_label(Renamed(ab[1])),
                                         CgaExpr_str_label(Renamed(ab[2])))[1][2], <<>>)),
      a     |-> Renamed(prop(ab[1])),
      b     |-> Renamed(prop(ab[2]))] :
        ab \in {q \in Range(components(r)) \X Range(components(s)) :
                   CgaExpr_bool(CgaExpr_xor(CgaExpr_str_label(Renamed(q[1])),
                                            CgaExpr_str_label(Renamed(q[2]))))}}

\* C2: the accumulation terms gen_mul_func emits for grades r, s and a target
\* grade t > 0 are exactly the (result blade, sign, a, b) that canonicalize
\* gives, under m -> '-' and p -> '+', for the blades a of grade r and b of
\* grade s whose product has a label of length t; multiply_axes(a, b) returns
\* the label and sign of canonicalize(a+b) without raising; and a wedge kernel
\* (wedge_1_1 among them) has the terms of the symbolic '^' on the same blades.
C2_KernelMatchesCanonicalize ==
    /\ (pc = "done" /\ gen_args.funcname # "" /\ gen_args.result_grade > 0) =>
          /\ EmittedTerms(gen_out)
               = CanonicalTerms(gen_args.r, gen_args.s, gen_args.result_grade)
          /\ (gen_args.funcname = "wedge"
                /\ gen_args.result_grade = gen_args.r + gen_args.s) =>
                EmittedTerms(gen_out) = SymbolicWedgeTerms(gen_args.r, gen_args.s)
    /\ pc = "multiplied" =>
          /\ raised = "none"
          /\ Renamed(canon_out.ret) = canonicalize(Renamed(axes_in[1] \o axes_in[2])).ret
          /\ canon_out.sign = canonicalize(Renamed(axes_in[1] \o axes_in[2])).sign

\* wedge_1_1 has been generated: twenty terms, among them the two that
\* accumulate into the mp field, one of them negated.
C2_Witness ==
    /\ pc = "done"
    /\ gen_args = [funcname |-> "wedge", r |-> 1, s |-> 1, result_grade |-> 2]
    /\ Cardinality(EmittedTerms(gen_out)) = 20
    /\ [field |-> <<"-", "+">>, sign |-> "-", a |-> <<"+">>, b |-> <<"-">>]
         \in EmittedTerms(gen_out)
    /\ [field |-> <<"-", "+">>, sign |-> " ", a |-> <<"-">>, b |-> <<"+">>]
         \in EmittedTerms(gen_out)

----------------------------------------------------------------------------
(* C3, C7, C8: the polynomial ring *)

IsSortedKey(k) == \A m \in 1..(Len(k) - 1) : VarRank(k[m]) <= VarRank(k[m + 1])

\* C3: every polynomial built by construction (literal, name, explicit
\* mapping) and add, subtract, negate, scalar multiply and multiply stores
\* only sorted keys and no zero coefficient.
C3_NoZeroCoefficient ==
    \A i \in DOMAIN sreg : \A n \in 1..Len(sreg[i]) :
        IsSortedKey(sreg[i][n][1]) /\ sreg[i][n][2] # 0

\* C7: (p + q) * r and p * r + q * r have identical stored term mappings,
\* for the polynomials held in any three of the client's values.
C7_Distributive ==
    \A i \in DOMAIN sreg, j \in DOMAIN sreg, k \in DOMAIN sreg :
        Mapping(ScalarExpr_mul(ScalarExpr_add(sreg[i], sreg[j]), sreg[k]))
          = Mapping(ScalarExpr_add(ScalarExpr_mul(sreg[i], sreg[k]),
                                   ScalarExpr_mul(sreg[j], sreg[k])))

\* C8: for every polynomial p reachable by construction and ring operations,
\* p + (-p) has no stored terms.
C8_AddNegIsZero ==
    \A i \in DOMAIN sreg :
        ScalarExpr_add(sreg[i], ScalarExpr_neg(sreg[i])) = <<>>

\* A product of two binomials is held: it has three stored terms, one of
\* them with coefficient zero, and adding its negation leaves nothing.
C8_Witness ==
    /\ sops = MaxPolyOps
    /\ \E i \in DOMAIN sreg :
        /\ Len(sreg[i]) >= 3
        /\ \E n \in 1..Len(sreg[i]) : sreg[i][n][2] = 0
        /\ \E n \in 1..Len(sreg[i]) : sreg[i][n][2] # 0
        /\ ScalarExpr_add(sreg[i], ScalarExpr_neg(sreg[i])) = <<>>

----------------------------------------------------------------------------
(* C4, C5, C9: multivector values under construction and operations *)

\* A canonical label: axes in the fixed order, none repeated
IsCanonical(k) == \A m \in 1..(Len(k) - 1) : Rank(k[m]) < Rank(k[m + 1])

WellFormed(terms) ==
    \A n \in 1..Len(terms) : IsCanonical(terms[n][1]) /\ ScalarExpr_bool(terms[n][2])

\* C4: every multivector returned by the constructor and by add, subtract,
\* negate, product, scalar multiply, reverse, grade projection, outer
\* product, left contraction and dual stores only canonical labels and no
\* zero-valued coefficient.  (A step of str returns text, not a multivector.)
C4_ReturnedWellFormed ==
    [][\A i \in CREGS :
          (creg'[i] # creg[i] /\ ~CStr(i)) => WellFormed(creg'[i])]_vars

Observes(j) == CStr(j) \/ CScalarPart(j) \/ CBool(j) \/ CGrade(j)

RightOperand(j) ==
    \E i \in CREGS \ {j} :
        CAdd(i, j) \/ CSub(i, j) \/ CMul(i, j) \/ CXor(i, j) \/ CLshift(i, j)

\* C5: an operation leaves the term mapping of its operand as it was: the
\* value observed by str, s, bool or grade, and the right operand of a
\* binary operation.
C5_OperandsUnchanged ==
    [][\A j \in CREGS :
          (Observes(j) \/ RightOperand(j)) => Mapping(creg'[j]) = Mapping(creg[j])]_vars

\* (-1)^(g(g-1)/2)
RevSign(g) == IF ((g * (g - 1)) \div 2) % 2 = 0 THEN 1 ELSE -1

\* C9: reverse keeps the stored labels, multiplies the coefficient of each
\* stored blade of grade g by (-1)^(g(g-1)/2), and reversing twice gives back
\* the same term mapping.
C9_ReverseContract ==
    \A i \in DOMAIN creg :
        LET A == creg[i]
            R == CgaExpr_rev(A)
        IN /\ Range(Keys(R)) = Range(Keys(A))
           /\ \A n \in 1..Len(A) :
                 HasKey(R, A[n][1]) =>
                    Mapping(Get(R, A[n][1]))
                      = Mapping(ScalarExpr_mul_number(A[n][2], RevSign(Len(A[n][1]))))
           /\ Mapping(CgaExpr_rev(R)) = Mapping(A)

----------------------------------------------------------------------------
(* C6, C10 *)

\* C6: the geometric product is associative: (A*B)*C and A*(B*C) have the
\* same term mapping, blade for blade and coefficient for coefficient.
C6_Associative ==
    pc = "done" /\ Len(text) = 2 /\ DOMAIN creg = {"A", "B", "C"} =>
        {<<kv[1], Mapping(kv[2])>> : kv \in Range(text[1])}
          = {<<kv[1], Mapping(kv[2])>> : kv \in Range(text[2])}

\* Both products are computed for two-term vectors with polynomial
\* coefficients that involve the negative-square axis; the result is not zero.
C6_Witness ==
    /\ pc = "done" /\ Len(text) = 2 /\ DOMAIN creg = {"A", "B", "C"}
    /\ Len(creg.A) = 2 /\ Len(creg.B) = 2 /\ creg.C = creg.A
    /\ HasKey(creg.A, <<"-">>) /\ HasKey(creg.B, <<"+">>) /\ HasKey(creg.B, <<"x">>)
    /\ Len(text[1]) >= 2
    /\ text[1] = text[2]

\* C10: dual(dual(A)) = s * A with the one sign s = -1 for every nonzero
\* homogeneous multivector A over -+xyz.
C10_DualDualIsNeg ==
    pc = "done" /\ DOMAIN creg = {"A"} =>
        /\ raised = "none"
        /\ Len(text) = 2
        /\ {<<kv[1], Mapping(kv[2])>> : kv \in Range(text[2])}
             = {<<kv[1], Mapping(kv[2])>> : kv \in Range(CgaExpr_mul_number(creg.A, -1))}

\* A two-term bivector with polynomial coefficients has been dualized twice.
C10_Witness ==
    /\ pc = "done" /\ DOMAIN creg = {"A"} /\ raised = "none" /\ Len(text) = 2
    /\ Len(creg.A) = 2
    /\ CgaExpr_grade(creg.A) = 2
    /\ ScalarExpr_bool(creg.A[1][2]) /\ Len(creg.A[2][2]) = 2
    /\ CgaExpr_grade(text[1]) = 3
    /\ Len(text[2]) = 2

----------------------------------------------------------------------------
(* C11 *)

\* C11: for every coordinate x, a numeric literal or a polynomial, the scalar
\* part of point_at(x) * point_at(x) is the polynomial with no stored terms.
C11_PointIsNull ==
    (pc = "done" /\ DOMAIN creg = {"P", "Q"}) => text = << <<>> >>

----------------------------------------------------------------------------
(* C12 *)

\* No stored terms, or stored labels of differing lengths
EmptyOrMixed(terms) == Len(terms) = 0 \/ ~Homogeneous(terms)

\* C12: querying the grade of a multivector with no stored terms or with
\* stored labels of differing lengths signals an error at that operation and
\* returns no grade, in every reachable state of the multivector, also after
\* it has been rendered to text.
C12_GradeSignals ==
    [][\A i \in CREGS :
          (CGrade(i) /\ EmptyOrMixed(creg[i])) => (raised' # "none" /\ text' = text)]_vars

----------------------------------------------------------------------------
(* C13 *)

\* The digits after "struct Blade" of the declarations printed
DeclaredTypes == {text[n].body[2] : n \in {i \in 1..Len(text) : text[i].kind = "struct"}}

\* The field names a printed declaration of the type declares
DeclaredFields(type) ==
    UNION {{SubSeq(text[n].body, p + 1, q - 1) :
               p \in {i \in 1..Len(text[n].body) : text[n].body[i] = " float "},
               q \in {i \in 1..Len(text[n].body) : text[n].body[i] = ";"}} :
           n \in {i \in 1..Len(text) : text[i].kind = "struct" /\ text[i].body[2] = type}}

\* The kernels printed that are not ''
PrintedKernels ==
    {text[n].body : n \in {i \in 1..Len(text) : text[i].kind = "kernel" /\ text[i].body # <<>>}}

\* The field a kernel line accumulates into
AccumulatedField(line) == SubSeq(line, 2, TokenPos(line, " += ") - 1)

\* C13: every kernel the batch run prints that is not '' returns a record
\* type Blade<g> with g between 1 and NDIM+2, which is one of the types the
\* run has declared, and accumulates only into fields of that declaration.
C13_KernelTypesDeclared ==
    \A kernel \in PrintedKernels :
        /\ kernel[1][2] \in {ToString(g) : g \in 1..(NDIM + 2)}
        /\ kernel[1][2] \in DeclaredTypes
        /\ \A n \in 1..Len(kernel) :
              IsAccumulation(kernel[n]) =>
                 AccumulatedField(kernel[n]) \in DeclaredFields(kernel[1][2])

====
